---------------------------- MODULE Spec2Model ----------------------------
(***************************************************************************)
(* refprop-sys: the safe wrapper around the REFPROP native library.        *)
(*                                                                         *)
(* The model has caller threads that invoke the public operations of       *)
(* RefpropFunctionLibrary, the process-wide REFPROP_MUTEX, and a stand-in  *)
(* for the native library that records who calls which entry point and     *)
(* answers every call with a nondeterministic outcome.                     *)
(*                                                                         *)
(* Floating point compositions are integers in units of 1e-6 (One = 1.0);  *)
(* rounding of the f64 sum is not modelled.  Heat capacities are whole     *)
(* numbers.  A Rust string is [len, nul]: its length in bytes and whether  *)
(* it holds a 0 byte, the only two things the wrapper looks at.  A text    *)
(* buffer handed to the native library is [cap, bytes, fill]: `bytes`      *)
(* followed by `fill` repeated up to `cap` bytes.                          *)
(***************************************************************************)
EXTENDS Integers, Sequences, FiniteSets, TLC

VARIABLES
    mutexInit,  \* REFPROP_MUTEX (OnceLock) has been initialised
    holder,     \* thread holding the MutexGuard, 0 when the mutex is free
    poisoned,   \* the mutex's poison flag
    thr,        \* per thread: pc, top-level call, nested call, locals, result, observations
    session,    \* the native library's loaded fluid ("none", "fluids", "mixture")
    crashed     \* the process died on undefined behaviour

vars == <<mutexInit, holder, poisoned, thr, session, crashed>>

---------------------------------------------------------------------------
(* Bounds of the model *)

NumThreads == 2

Threads == 1..NumThreads

---------------------------------------------------------------------------
(* Program constants *)

CV_UNDEFINED == -9999990

CP_UNDEFINED == -9999980

MAX_COMPONENTS == 20

MAX_OUTPUTS == 200

HERR_LENGTH == 255

HENUM_LENGTH == 255

HOUT_LENGTH == 255

MAX_FLUIDS_LENGTH == 10000

PATH_LENGTH == 255

ALLPROPS1_MARKER == -999970

\* The value the native library leaves for a property it could not compute.
NO_VALUE_MARKER == -9999970

One == 1000 * 1000

Tolerance == One \div One

---------------------------------------------------------------------------
(* Values *)

\* f64::NAN, as a value outside the range of the numbers drawn.  Arithmetic on
\* NaN gives NaN and every ordered comparison with NaN is false.
NaN == 0 - 1000 * One

Add(a, b) == IF a = NaN \/ b = NaN THEN NaN ELSE a + b

Gt(a, b) == a # NaN /\ b # NaN /\ a > b

Lt(a, b) == a # NaN /\ b # NaN /\ a < b

Abs(x) == IF x = NaN THEN NaN ELSE IF x < 0 THEN -x ELSE x

RECURSIVE Sum(_)
Sum(s) == IF s = <<>> THEN 0 ELSE Add(Head(s), Sum(Tail(s)))

Str(n, hasNul) == [len |-> n, nul |-> hasNul]

None == [some |-> FALSE, v |-> 0]

Some(x) == [some |-> TRUE, v |-> x]

Ok(x) == [kind |-> "Ok", val |-> x]

\* An error and the text it carries, as bytes.
Err(k, text) == [kind |-> k, val |-> text]

NoResult == [kind |-> "none", val |-> 0]

ZeroBuf(cap) == [cap |-> cap, bytes |-> <<>>, fill |-> 0]

\* The bytes of a buffer, all `cap` of them, are never enumerated: a buffer
\* holds a 0 byte iff its prefix does or its padding is 0 and is not empty.
HasNul(buf) ==
    \/ \E i \in 1..Len(buf.bytes) : buf.bytes[i] = 0
    \/ (buf.fill = 0 /\ Len(buf.bytes) < buf.cap)

RECURSIVE UpToNul(_)
UpToNul(bytes) ==
    IF bytes = <<>> \/ Head(bytes) = 0 THEN <<>>
    ELSE <<Head(bytes)>> \o UpToNul(Tail(bytes))

\* Only single-byte text is drawn: a byte below 128 is valid UTF-8 on its own,
\* a byte of 128 or more is not.
ValidUtf8(bytes) == \A i \in 1..Len(bytes) : bytes[i] < 128

---------------------------------------------------------------------------
(* utils.rs *)

\* validate_composition with the test of the sum alone.
validate_composition_sum_only(z) ==
    IF Gt(Abs(Add(Sum(z), -One)), Tolerance) THEN "InvalidInput" ELSE "Ok"

validate_composition(z) ==
    IF Len(z) > MAX_COMPONENTS THEN "InvalidInput"
    ELSE IF Gt(Abs(Add(Sum(z), -One)), Tolerance) THEN "InvalidInput"
    ELSE "Ok"

\* let mut buf = [0.0; 20]; for (i, &val) in z.iter().enumerate() { buf[i] = val; }
\* The store at an index past the array panics.
PackPanics(z, cap) == Len(z) > cap

Pack(z, cap) == [i \in 1..cap |-> IF i <= Len(z) THEN z[i] ELSE 0]

\* A pointer into the caller's slice itself.
SlicePointee(slice) == [owner |-> "caller", of |-> slice]

\* let z_ptr = z_buffer.as_mut_ptr(): the array whose address the native
\* call is given for the composition `slice` is the body's own array.
BufferPointee(slice) == [owner |-> "body", of |-> slice]

\* An unpacking that returns the whole array.
UnpackWhole(arr, n) == arr

\* arr.into_iter().take(n).collect()
Unpack(arr, n) == [i \in 1..(IF n < Len(arr) THEN n ELSE Len(arr)) |-> arr[i]]

\* A conversion that takes the bytes up to the first 0 byte as text without
\* validating them.
CStrToStrUnchecked(buf) ==
    IF ~HasNul(buf) THEN [kind |-> "ub", text |-> buf.bytes \o <<buf.fill>>]
    ELSE [kind |-> "Ok", text |-> UpToNul(buf.bytes)]

\* CStr::from_ptr(ptr).to_str(): the bytes up to the first 0 byte, whatever the
\* declared length.  Without a 0 byte in the buffer the read runs past its end,
\* which is undefined behaviour: "ub" (the text then stands for the whole
\* buffer, its padding written once).
CStrToStr(buf) ==
    IF ~HasNul(buf) THEN [kind |-> "ub", text |-> buf.bytes \o <<buf.fill>>]
    ELSE IF ValidUtf8(UpToNul(buf.bytes)) THEN [kind |-> "Ok", text |-> UpToNul(buf.bytes)]
    ELSE [kind |-> "Utf8Error", text |-> <<>>]

\* The discriminants of Basis, Phase and KrKqFlag.
Basis == 0..2

Phase == 0..3

KrKqFlag == 0..4

\* An encoding that adds the phase and the kr/kq flag in the same digit.
EncodeFlagOneDigit(b, p, k) == b + 10 * (p + k)

\* imass_flag as i32 + 10 * kph_flag as i32 + 100 * krkq_flag as i32
EncodeFlag(b, p, k) == b + 10 * p + 100 * k

\* CString::new(s) fails on an interior 0 byte.
CStringNew(s) == IF s.nul THEN "InvalidInput" ELSE "Ok"

\* The copy of get_enum and set_fluids: bytes_to_copy is cap - 1 when the
\* string with its terminator is longer than cap, else its length;
\* buffer[..bytes_to_copy].copy_from_slice(c_bytes) panics when the lengths
\* differ and buffer[bytes_to_copy] = 0 panics when bytes_to_copy = cap.
CopyWithNul(s, cap) ==
    LET nbytes == s.len + 1
        bytes_to_copy == IF nbytes > cap THEN cap - 1 ELSE nbytes
    IN  IF bytes_to_copy # nbytes THEN "panic"
        ELSE IF bytes_to_copy >= cap THEN "panic"
        ELSE "Ok"

---------------------------------------------------------------------------
(* The public operations, each as the descriptor of what its body does:       *)
(*   pre    the checks made before the gate is taken, in the code's order     *)
(*   nested the public operation it calls first ("none" when it calls none)   *)
(*   gate   how it takes REFPROP_MUTEX ("none": it only delegates)            *)
(*   post   the checks and copies made while the gate is held, in order       *)
(*   entry  the native entry point, called `times` times in a row             *)
(*   ierr   the entry point has an error-code output                          *)
(*   herr   the length of the message buffer (herrIn: the primary call gets   *)
(*          the buffer too)                                                   *)
(*   err    the error protocol after the call                                 *)
(*   ret    how the result is built                                           *)

set_path ==
    [pre |-> <<>>, nested |-> "none", gate |-> "acquire_lock",
     post |-> <<"env_unwrap", "str_nul">>,
     entry |-> "SETPATHdll", times |-> 1, ierr |-> FALSE,
     herr |-> 256, herrIn |-> FALSE,
     err |-> "check_refprop_error", ret |-> "unit"]

set_fluids ==
    [pre |-> <<>>, nested |-> "none", gate |-> "acquire_lock",
     post |-> <<"str_nul", "copy_fluids">>,
     entry |-> "SETFLUIDSdll", times |-> 1, ierr |-> TRUE,
     herr |-> HERR_LENGTH, herrIn |-> FALSE,
     err |-> "check_refprop_error", ret |-> "unit"]

set_mixture ==
    [pre |-> <<>>, nested |-> "none", gate |-> "acquire_lock",
     post |-> <<"str_nul">>,
     entry |-> "SETMIXTUREdll", times |-> 1, ierr |-> TRUE,
     herr |-> HERR_LENGTH, herrIn |-> FALSE,
     err |-> "check_refprop_error", ret |-> "mixture"]

pure_fld ==
    [pre |-> <<>>, nested |-> "none", gate |-> "acquire_lock",
     post |-> <<>>,
     entry |-> "PUREFLDdll", times |-> 1, ierr |-> FALSE,
     herr |-> 0, herrIn |-> FALSE,
     err |-> "none", ret |-> "unit"]

satspln ==
    [pre |-> <<"z">>, nested |-> "none", gate |-> "acquire_lock",
     post |-> <<"pack_z">>,
     entry |-> "SATSPLNdll", times |-> 1, ierr |-> TRUE,
     herr |-> HERR_LENGTH, herrIn |-> TRUE,
     err |-> "check_refprop_error", ret |-> "unit"]

critical_parameters ==
    [pre |-> <<"z_len">>, nested |-> "none", gate |-> "inline_lock",
     post |-> <<"pack_z">>,
     entry |-> "CRITPdll", times |-> 1, ierr |-> TRUE,
     herr |-> HERR_LENGTH, herrIn |-> TRUE,
     err |-> "inline", ret |-> "scalar"]

all_props0 ==
    [pre |-> <<"nout_len", "z_len">>, nested |-> "none", gate |-> "inline_lock",
     post |-> <<"pack_z">>,
     entry |-> "ALLPROPS0dll", times |-> 1, ierr |-> TRUE,
     herr |-> HERR_LENGTH, herrIn |-> TRUE,
     err |-> "inline", ret |-> "outputs"]

all_props1 ==
    [pre |-> <<"str_len", "z_len", "str_nul">>, nested |-> "get_iunits_code",
     gate |-> "inline_lock",
     post |-> <<"pack_z">>,
     entry |-> "ALLPROPS1dll", times |-> 2, ierr |-> TRUE,
     herr |-> HERR_LENGTH, herrIn |-> TRUE,
     err |-> "inline", ret |-> "marker"]

get_enum ==
    [pre |-> <<>>, nested |-> "none", gate |-> "acquire_lock",
     post |-> <<"str_nul", "copy_enum">>,
     entry |-> "GETENUMdll", times |-> 1, ierr |-> TRUE,
     herr |-> HERR_LENGTH, herrIn |-> TRUE,
     err |-> "check_refprop_error", ret |-> "scalar"]

\* calc_molar_mass with the test of the length alone.
calc_molar_mass_len_only ==
    [pre |-> <<"z_len">>, nested |-> "none", gate |-> "acquire_lock",
     post |-> <<"pack_z">>,
     entry |-> "WMOLdll", times |-> 1, ierr |-> FALSE,
     herr |-> 0, herrIn |-> FALSE,
     err |-> "none", ret |-> "scalar"]

calc_molar_mass ==
    [pre |-> <<"z">>, nested |-> "none", gate |-> "acquire_lock",
     post |-> <<"pack_z">>,
     entry |-> "WMOLdll", times |-> 1, ierr |-> FALSE,
     herr |-> 0, herrIn |-> FALSE,
     err |-> "none", ret |-> "scalar"]

convert_to_mass_fractions ==
    [pre |-> <<"z">>, nested |-> "none", gate |-> "acquire_lock",
     post |-> <<"pack_z">>,
     entry |-> "XMASSdll", times |-> 1, ierr |-> FALSE,
     herr |-> 0, herrIn |-> FALSE,
     err |-> "none", ret |-> "fractions"]

convert_to_mole_fractions ==
    [pre |-> <<"z">>, nested |-> "none", gate |-> "acquire_lock",
     post |-> <<"pack_z">>,
     entry |-> "XMOLEdll", times |-> 1, ierr |-> FALSE,
     herr |-> 0, herrIn |-> FALSE,
     err |-> "none", ret |-> "fractions"]

convert_to_mass_quality ==
    [pre |-> <<"q01", "z", "zv">>, nested |-> "none", gate |-> "acquire_lock",
     post |-> <<"pack_z", "pack_zv">>,
     entry |-> "QMASSdll", times |-> 1, ierr |-> TRUE,
     herr |-> HERR_LENGTH, herrIn |-> TRUE,
     err |-> "check_refprop_error", ret |-> "quality"]

convert_to_mole_quality ==
    [pre |-> <<"q01", "z", "zv">>, nested |-> "none", gate |-> "acquire_lock",
     post |-> <<"pack_z", "pack_zv">>,
     entry |-> "QMOLEdll", times |-> 1, ierr |-> TRUE,
     herr |-> HERR_LENGTH, herrIn |-> TRUE,
     err |-> "check_refprop_error", ret |-> "quality"]

transport_properties ==
    [pre |-> <<"z">>, nested |-> "none", gate |-> "acquire_lock",
     post |-> <<"pack_z">>,
     entry |-> "TRNPRPdll", times |-> 1, ierr |-> TRUE,
     herr |-> HERR_LENGTH, herrIn |-> TRUE,
     err |-> "check_refprop_error", ret |-> "scalar"]

name ==
    [pre |-> <<>>, nested |-> "none", gate |-> "acquire_lock",
     post |-> <<>>,
     entry |-> "NAMEdll", times |-> 1, ierr |-> FALSE,
     herr |-> 0, herrIn |-> FALSE,
     err |-> "none", ret |-> "name"]

get_filename ==
    [pre |-> <<>>, nested |-> "name", gate |-> "none",
     post |-> <<>>,
     entry |-> "none", times |-> 0, ierr |-> FALSE,
     herr |-> 0, herrIn |-> FALSE,
     err |-> "none", ret |-> "hn80"]

ab_flash ==
    [pre |-> <<"ab_len", "ab_chars", "z">>, nested |-> "none", gate |-> "acquire_lock",
     post |-> <<"ab_nul", "pack_z">>,
     entry |-> "ABFLSHdll", times |-> 1, ierr |-> TRUE,
     herr |-> HERR_LENGTH, herrIn |-> TRUE,
     err |-> "check_refprop_error", ret |-> "flash_both"]

pd_flash ==
    [pre |-> <<"z">>, nested |-> "none", gate |-> "acquire_lock",
     post |-> <<"pack_z">>,
     entry |-> "PDFLSHdll", times |-> 1, ierr |-> TRUE,
     herr |-> HERR_LENGTH, herrIn |-> TRUE,
     err |-> "check_refprop_error", ret |-> "flash_own"]

ph_flash ==
    [pre |-> <<"z">>, nested |-> "none", gate |-> "acquire_lock",
     post |-> <<"pack_z">>,
     entry |-> "PHFLSHdll", times |-> 1, ierr |-> TRUE,
     herr |-> HERR_LENGTH, herrIn |-> TRUE,
     err |-> "check_refprop_error", ret |-> "flash_own"]

\* pq_flash with the range test of the quality conversions.
pq_flash_q01 ==
    [pre |-> <<"q01", "z">>, nested |-> "none", gate |-> "acquire_lock",
     post |-> <<"pack_z">>,
     entry |-> "PQFLSHdll", times |-> 1, ierr |-> TRUE,
     herr |-> HERR_LENGTH, herrIn |-> TRUE,
     err |-> "check_refprop_error", ret |-> "flash_own"]

pq_flash ==
    [pre |-> <<"z">>, nested |-> "none", gate |-> "acquire_lock",
     post |-> <<"pack_z">>,
     entry |-> "PQFLSHdll", times |-> 1, ierr |-> TRUE,
     herr |-> HERR_LENGTH, herrIn |-> TRUE,
     err |-> "check_refprop_error", ret |-> "flash_own"]

td_flash ==
    [pre |-> <<"z">>, nested |-> "none", gate |-> "acquire_lock",
     post |-> <<"pack_z">>,
     entry |-> "TDFLSHdll", times |-> 1, ierr |-> TRUE,
     herr |-> HERR_LENGTH, herrIn |-> TRUE,
     err |-> "check_refprop_error", ret |-> "flash_own"]

\* th_flash without the test of kr.
th_flash_any_kr ==
    [pre |-> <<"z">>, nested |-> "none", gate |-> "acquire_lock",
     post |-> <<"pack_z">>,
     entry |-> "THFLSHdll", times |-> 1, ierr |-> TRUE,
     herr |-> HERR_LENGTH, herrIn |-> TRUE,
     err |-> "check_refprop_error", ret |-> "flash_own"]

th_flash ==
    [pre |-> <<"z", "kr12">>, nested |-> "none", gate |-> "acquire_lock",
     post |-> <<"pack_z">>,
     entry |-> "THFLSHdll", times |-> 1, ierr |-> TRUE,
     herr |-> HERR_LENGTH, herrIn |-> TRUE,
     err |-> "check_refprop_error", ret |-> "flash_own"]

Ops ==
    [set_path |-> set_path, set_fluids |-> set_fluids, set_mixture |-> set_mixture,
     pure_fld |-> pure_fld, satspln |-> satspln,
     critical_parameters |-> critical_parameters,
     all_props0 |-> all_props0, all_props1 |-> all_props1, get_enum |-> get_enum,
     calc_molar_mass |-> calc_molar_mass,
     convert_to_mass_fractions |-> convert_to_mass_fractions,
     convert_to_mole_fractions |-> convert_to_mole_fractions,
     convert_to_mass_quality |-> convert_to_mass_quality,
     convert_to_mole_quality |-> convert_to_mole_quality,
     transport_properties |-> transport_properties,
     name |-> name, get_filename |-> get_filename,
     ab_flash |-> ab_flash, pd_flash |-> pd_flash, ph_flash |-> ph_flash,
     pq_flash |-> pq_flash, td_flash |-> td_flash, th_flash |-> th_flash]

Desc(c) == Ops[c.op]

FlashOps == {"ab_flash", "pd_flash", "ph_flash", "pq_flash", "td_flash", "th_flash"}

---------------------------------------------------------------------------
(* Calls and their arguments *)

\* `str` is the string argument, `hasPath`/`env` are set_path's Option and
\* whether RPPREFIX is set, `ab` is ab_flash's code as code points, `nout` is
\* the length of all_props0's i_out, `imass_flag`, `kph_flag` and `krkq_flag`
\* are the Basis, Phase and KrKqFlag of ab_flash and pq_flash as integers, `a`
\* and `b` are the two property values of ab_flash.
Args0 ==
    [op |-> "none", z |-> <<>>, zv |-> <<>>, q |-> 0, a |-> 0, b |-> 0, kr |-> 1,
     str |-> Str(0, FALSE), hasPath |-> TRUE, env |-> TRUE, ab |-> <<>>,
     units |-> "Default", nout |-> 0, icomp |-> 1,
     imass_flag |-> 0, kph_flag |-> 0, krkq_flag |-> 0]

NoCall == Args0

\* The property codes the caller of all_props0 asks for: `nout` codes, none 0.
IOut(c) == [i \in 1..c.nout |-> 10 + i]

\* The value of RPPREFIX when it is set: an environment value holds no 0 byte.
EnvPath == Str(20, FALSE)

\* str::len() counts bytes of the UTF-8 encoding.
Utf8Len(ch) == IF ch < 128 THEN 1 ELSE IF ch < 2048 THEN 2 ELSE 3

RECURSIVE ByteLen(_)
ByteLen(chars) == IF chars = <<>> THEN 0 ELSE Utf8Len(Head(chars)) + ByteLen(Tail(chars))

\* char::to_uppercase for the characters the model draws: ASCII letters, and
\* U+00DF whose upper case is the two characters "SS".
ToUpperChar(ch) ==
    IF ch \in 97..122 THEN <<ch - 32>>
    ELSE IF ch = 223 THEN <<83, 83>>
    ELSE <<ch>>

RECURSIVE ToUppercase(_)
ToUppercase(chars) ==
    IF chars = <<>> THEN <<>> ELSE ToUpperChar(Head(chars)) \o ToUppercase(Tail(chars))

\* ['T', 'P', 'D', 'E', 'H', 'S', 'Q']
ValidAbChars == {84, 80, 68, 69, 72, 83, 81}

\* Units::get_iunits_code: the variants that map to a string, the others are
\* unimplemented!().
UnitsWithString ==
    {"Default", "MolarSI", "MassSI", "SIWithC", "MolarBaseSI", "MassBaseSI",
     "English", "MolarEnglish", "MKS", "CGS", "Mixed", "MEUnits"}

UnitsStringLen(u) ==
    CASE u = "Default" -> 7
      [] u = "MolarSI" -> 8
      [] u = "MassSI" -> 7
      [] u = "SIWithC" -> 9
      [] u = "MolarBaseSI" -> 13
      [] u = "MassBaseSI" -> 12
      [] u = "English" -> 7
      [] u = "MolarEnglish" -> 13
      [] u = "MKS" -> 3
      [] u = "CGS" -> 3
      [] u = "Mixed" -> 5
      [] u = "MEUnits" -> 7

\* One check made before the gate is taken.
PreCheckOne(c, k) ==
    CASE k = "z" -> validate_composition(c.z)
      [] k = "zv" -> validate_composition(c.zv)
      [] k = "z_len" -> IF Len(c.z) > MAX_COMPONENTS THEN "InvalidInput" ELSE "Ok"
      [] k = "q01" -> IF Lt(c.q, 0) \/ Gt(c.q, One) THEN "InvalidInput" ELSE "Ok"
      [] k = "kr12" -> IF c.kr # 1 /\ c.kr # 2 THEN "InvalidInput" ELSE "Ok"
      [] k = "ab_len" -> IF ByteLen(c.ab) # 2 THEN "InvalidInput" ELSE "Ok"
      [] k = "ab_chars" ->
            IF \E i \in 1..Len(ToUppercase(c.ab)) : ToUppercase(c.ab)[i] \notin ValidAbChars
            THEN "InvalidInput" ELSE "Ok"
      [] k = "nout_len" -> IF c.nout > MAX_OUTPUTS THEN "InvalidInput" ELSE "Ok"
      [] k = "str_len" -> IF c.str.len > HOUT_LENGTH THEN "InvalidInput" ELSE "Ok"
      [] k = "str_nul" -> CStringNew(c.str)

\* One check or copy made while the gate is held.
PostCheckOne(c, k) ==
    CASE k = "env_unwrap" -> IF c.env THEN "Ok" ELSE "panic"
      [] k = "str_nul" ->
            CStringNew(IF c.op = "set_path" /\ ~c.hasPath THEN EnvPath ELSE c.str)
      [] k = "copy_fluids" -> CopyWithNul(c.str, MAX_FLUIDS_LENGTH)
      [] k = "copy_enum" -> CopyWithNul(c.str, HENUM_LENGTH)
      [] k = "ab_nul" ->
            IF \E i \in 1..Len(ToUppercase(c.ab)) : ToUppercase(c.ab)[i] = 0
            THEN "InvalidInput" ELSE "Ok"
      [] k = "pack_z" -> IF PackPanics(c.z, MAX_COMPONENTS) THEN "panic" ELSE "Ok"
      [] k = "pack_zv" -> IF PackPanics(c.zv, MAX_COMPONENTS) THEN "panic" ELSE "Ok"

\* The first check of `checks` that does not pass decides ("Ok" when all pass).
RECURSIVE PreCheckFrom(_, _)
PreCheckFrom(c, checks) ==
    IF checks = <<>> THEN "Ok"
    ELSE IF PreCheckOne(c, Head(checks)) # "Ok" THEN PreCheckOne(c, Head(checks))
    ELSE PreCheckFrom(c, Tail(checks))

RECURSIVE PostCheckFrom(_, _)
PostCheckFrom(c, checks) ==
    IF checks = <<>> THEN "Ok"
    ELSE IF PostCheckOne(c, Head(checks)) # "Ok" THEN PostCheckOne(c, Head(checks))
    ELSE PostCheckFrom(c, Tail(checks))

PreCheck(c) == PreCheckFrom(c, Desc(c).pre)

PostCheck(c) == PostCheckFrom(c, Desc(c).post)

---------------------------------------------------------------------------
(* The native library's stand-in *)

\* Error codes a native call may return.
Ierrs == {0, 1}

\* The 20-slot composition array as SETMIXTUREdll may leave it: two components;
\* two components with an empty slot between them; nothing written; every
\* slot written; a negative second slot; a first slot that is not a number;
\* two components that do not sum to one.
MixBinary == [i \in 1..MAX_COMPONENTS |-> IF i <= 2 THEN One \div 2 ELSE 0]

MixGap == [i \in 1..MAX_COMPONENTS |-> IF i \in {1, 3} THEN One \div 2 ELSE 0]

MixNone == [i \in 1..MAX_COMPONENTS |-> 0]

MixFull == [i \in 1..MAX_COMPONENTS |-> One \div MAX_COMPONENTS]

MixNegative == [i \in 1..MAX_COMPONENTS |-> IF i = 1 THEN One ELSE IF i = 2 THEN -1 ELSE 0]

MixNaN == [i \in 1..MAX_COMPONENTS |-> IF i = 1 THEN NaN ELSE IF i = 2 THEN One ELSE 0]

MixOff == [i \in 1..MAX_COMPONENTS |-> IF i <= 2 THEN One \div 4 ELSE 0]

\* A stand-in is the set of answers it draws from: `msgs`, what it may write
\* to a message buffer, `keep`, whether it may also leave the buffer, or a
\* heat-capacity slot, as it found it, `heat`, what a flash routine may write
\* to a heat-capacity slot, `mass`, the molar masses WMOLdll, XMASSdll and
\* XMOLEdll may write, `mix`, the composition arrays SETMIXTUREdll may leave,
\* `props`, what ALLPROPS1dll may leave in the first output slot, and `names`,
\* what NAMEdll may write to a text field.
\* FullNative: a terminated message, a terminated message that is not UTF-8,
\* a message padded with blanks to the full width of the field, without a 0
\* byte; both sentinels and a heat capacity; a negative, a zero and a positive
\* molar mass; a terminated name followed by blanks, a terminated name that
\* is not UTF-8, a name padded with blanks to the full width of its field.
FullNative ==
    [msgs |-> {[bytes |-> <<69>>, fill |-> 0], [bytes |-> <<255>>, fill |-> 0],
               [bytes |-> <<69>>, fill |-> 32]},
     keep |-> TRUE,
     heat |-> {CV_UNDEFINED, CP_UNDEFINED, 30},
     mass |-> {-1, 0, 44},
     mix |-> {MixBinary, MixGap, MixNone, MixFull, MixNegative, MixNaN, MixOff},
     props |-> {5, ALLPROPS1_MARKER, NO_VALUE_MARKER},
     names |-> {[bytes |-> <<69, 32, 32>>, fill |-> 0], [bytes |-> <<255>>, fill |-> 0],
                [bytes |-> <<69>>, fill |-> 32]}]

\* LeanNative, for the concurrent runs: one message, always written, one heat
\* capacity and one molar mass.
LeanNative ==
    [msgs |-> {[bytes |-> <<69>>, fill |-> 0]},
     keep |-> FALSE,
     heat |-> {30},
     mass |-> {44},
     mix |-> {MixBinary},
     props |-> {5, ALLPROPS1_MARKER},
     names |-> {[bytes |-> <<69>>, fill |-> 0]}]

\* The buffers a native call may leave behind, given the buffer `old` it got.
HerrWrites(old, native) ==
    {[cap |-> old.cap, bytes |-> m.bytes, fill |-> m.fill] : m \in native.msgs}
    \cup (IF native.keep THEN {old} ELSE {})

\* A composition array as the native library fills it: every one of its
\* MAX_COMPONENTS slots written, none with 0.
NativeVector(base) == [i \in 1..MAX_COMPONENTS |-> base + i]

\* A text field of NAMEdll as the call may leave it.
NameWrites(old, native) ==
    {[cap |-> old.cap, bytes |-> m.bytes, fill |-> m.fill] : m \in native.names}
    \cup (IF native.keep THEN {old} ELSE {})

\* The output array as ALLPROPS0dll may leave it when asked for `n` values:
\* the first n slots written, or every slot written.
OutputArrays(n) ==
    {[i \in 1..MAX_OUTPUTS |-> IF i <= n THEN 1000 + i ELSE 0],
     [i \in 1..MAX_OUTPUTS |-> 1000 + i]}

\* The outputs with the composition arrays the call was given filled in.
WithVectors(out) ==
    [out EXCEPT !.x = IF @ = <<>> THEN @ ELSE NativeVector(100),
                !.y = IF @ = <<>> THEN @ ELSE NativeVector(200)]

\* The numeric outputs of a successful primary call.
NativeOutputs(c, out, native) ==
    IF c.op \in FlashOps
    THEN {[WithVectors(out) EXCEPT !.Cv = a, !.Cp = b] :
            a \in native.heat \cup (IF native.keep THEN {out.Cv} ELSE {}),
            b \in native.heat \cup (IF native.keep THEN {out.Cp} ELSE {})}
    ELSE IF c.op = "all_props1" THEN {[out EXCEPT !.val = v] : v \in native.props}
    ELSE IF c.op = "name"
    THEN {[out EXCEPT !.names = <<a, b, d>>] :
            a \in NameWrites(out.names[1], native),
            b \in NameWrites(out.names[2], native),
            d \in NameWrites(out.names[3], native)}
    ELSE IF c.op = "all_props0" THEN {[out EXCEPT !.x = a] : a \in OutputArrays(c.nout)}
    ELSE IF c.op = "set_mixture" THEN {[out EXCEPT !.x = m] : m \in native.mix}
    ELSE IF Desc(c).ret = "fractions" \/ c.op = "calc_molar_mass"
    THEN {[WithVectors(out) EXCEPT !.val = v] : v \in native.mass}
    ELSE {[WithVectors(out) EXCEPT !.val = 7]}

\* The loaded fluid after a primary call.
SessionAfter(c, ierr, old) ==
    IF ierr # 0 THEN old
    ELSE IF c.op = "set_fluids" THEN "fluids"
    ELSE IF c.op = "set_mixture" THEN "mixture"
    ELSE old

---------------------------------------------------------------------------
(* Threads *)

\* The outputs of a native call: the heat capacities, a scalar, the two
\* composition arrays (x, y; converted fractions), and the text fields of
\* NAMEdll (hnam, hn80, hcasn).
Out0 == [Cv |-> 0, Cp |-> 0, val |-> 0, x |-> <<>>, y |-> <<>>, names |-> <<>>]

Loc0 ==
    [left |-> 0, phase |-> "none", ierr |-> 0, herr |-> ZeroBuf(0),
     zbuf |-> <<>>, zvbuf |-> <<>>, iflag |-> 0,
     c_ab |-> <<>>, q |-> 0, a |-> 0, b |-> 0, ptrs |-> {},
     i_in |-> 0, i_out_buffer |-> <<>>,
     out |-> Out0]

\* What the instrumented stand-in and gate record of one top-level invocation:
\* how often the gate was taken, the entry points called, the error codes the
\* primary calls returned, whether another thread called into the native
\* library after this invocation's first native call, the buffer length given
\* to ERRMSGdll, the buffer as ERRMSGdll left it, the numeric outputs as the
\* last primary call left them, and the composition buffers, the flag, the
\* property code and the scalars q, a and b handed to the primary call, and
\* the arrays the composition pointers of that call point into, and the count
\* and the code array handed to ALLPROPS0dll.
Obs0 ==
    [gate |-> 0, calls |-> <<>>, codes |-> <<>>, intruded |-> FALSE, msgLen |-> 0,
     herr |-> ZeroBuf(0), out |-> Out0,
     zbuf |-> <<>>, zvbuf |-> <<>>, iflag |-> 0,
     ab |-> <<>>, q |-> 0, a |-> 0, b |-> 0, ptrs |-> {},
     i_in |-> 0, i_out_buffer |-> <<>>]

Idle ==
    [pc |-> "idle", call |-> NoCall, sub |-> NoCall, iunits |-> 0,
     loc |-> Loc0, res |-> NoResult, obs |-> Obs0]

\* The call whose body the thread is executing.
Active(r) == IF r.sub.op # "none" THEN r.sub ELSE r.call

\* The kinds of result that carry composition vectors.
VectorRets == {"flash_own", "flash_both", "fractions", "quality"}

\* let mut hnam_buffer = [0 as c_char; 12]; hn80_buffer: 80; hcasn_buffer: 12
NameBuffers == <<ZeroBuf(12), ZeroBuf(80), ZeroBuf(12)>>

\* Heat-capacity slots that start at zero.
ZeroedSlots == [Cv |-> 0, Cp |-> 0]

\* let mut Cv: f64 = CV_UNDEFINED; let mut Cp: f64 = CP_UNDEFINED;
HeatCapacitySlots == [Cv |-> CV_UNDEFINED, Cp |-> CP_UNDEFINED]

\* The locals of a body once the gate is held: buffers packed, outputs at
\* their initial values (the heat capacities of a flash at their sentinels).
LocInit(c) ==
    [left |-> Desc(c).times, phase |-> "primary", ierr |-> 0,
     herr |-> ZeroBuf(Desc(c).herr),
     zbuf |-> IF "pack_z" \in {Desc(c).post[i] : i \in 1..Len(Desc(c).post)}
              THEN Pack(c.z, MAX_COMPONENTS) ELSE <<>>,
     zvbuf |-> IF "pack_zv" \in {Desc(c).post[i] : i \in 1..Len(Desc(c).post)}
               THEN Pack(c.zv, MAX_COMPONENTS) ELSE <<>>,
     iflag |-> IF c.op \in {"ab_flash", "pq_flash"}
               THEN EncodeFlag(c.imass_flag, c.kph_flag, c.krkq_flag) ELSE 0,
     c_ab |-> IF c.op = "ab_flash" THEN ToUppercase(c.ab) ELSE <<>>,
     q |-> c.q, a |-> c.a, b |-> c.b,
     ptrs |-> {BufferPointee(k) : k \in {"z", "zv"} \cap
                    {IF Desc(c).post[i] = "pack_z" THEN "z"
                     ELSE IF Desc(c).post[i] = "pack_zv" THEN "zv"
                     ELSE "none" : i \in 1..Len(Desc(c).post)}},
     i_in |-> IF c.op = "all_props0" THEN c.nout ELSE 0,
     i_out_buffer |-> IF c.op = "all_props0" THEN Pack(IOut(c), MAX_OUTPUTS) ELSE <<>>,
     out |-> [Cv |-> IF c.op \in FlashOps THEN HeatCapacitySlots.Cv ELSE 0,
              Cp |-> IF c.op \in FlashOps THEN HeatCapacitySlots.Cp ELSE 0,
              val |-> 0,
              x |-> IF Desc(c).ret \in VectorRets \cup {"mixture"}
                    THEN Pack(<<>>, MAX_COMPONENTS)
                    ELSE IF Desc(c).ret = "outputs" THEN Pack(<<>>, MAX_OUTPUTS)
                    ELSE <<>>,
              y |-> IF Desc(c).ret \in VectorRets \ {"fractions"}
                    THEN Pack(<<>>, MAX_COMPONENTS) ELSE <<>>,
              names |-> IF Desc(c).ret = "name" THEN NameBuffers ELSE <<>>]]

\* The thread after its active body returned `res`: a nested call hands its
\* result to the caller (all_props1 goes on to its own gate on Ok and returns
\* the error otherwise, `?`; get_filename returns the hn80 of what name
\* returned, or its error).
Returned(r, res) ==
    IF r.sub.op = "none" THEN [r EXCEPT !.pc = "done", !.res = res, !.loc = Loc0]
    ELSE IF r.call.op = "all_props1" /\ res.kind = "Ok"
    THEN [r EXCEPT !.pc = "lock", !.sub = NoCall, !.iunits = res.val, !.loc = Loc0]
    ELSE IF r.call.op = "get_filename" /\ res.kind = "Ok"
    THEN [r EXCEPT !.pc = "done", !.sub = NoCall, !.res = Ok(res.val.hn80), !.loc = Loc0]
    ELSE [r EXCEPT !.pc = "done", !.sub = NoCall, !.res = res, !.loc = Loc0]

---------------------------------------------------------------------------
(* Error translation and results *)

\* CV_UNDEFINED / CP_UNDEFINED handling of pd_flash, ph_flash, pq_flash,
\* td_flash and th_flash: each slot against its own sentinel.
SentinelOwn(out) ==
    [Cv |-> IF out.Cv = CV_UNDEFINED THEN None ELSE Some(out.Cv),
     Cp |-> IF out.Cp = CP_UNDEFINED THEN None ELSE Some(out.Cp)]

\* ab_flash: each slot against both sentinels.
SentinelBoth(out) ==
    [Cv |-> IF out.Cv = CV_UNDEFINED \/ out.Cv = CP_UNDEFINED THEN None ELSE Some(out.Cv),
     Cp |-> IF out.Cp = CP_UNDEFINED \/ out.Cp = CV_UNDEFINED THEN None ELSE Some(out.Cp)]

\* A test that lets a molar mass of zero through.
MolarMassNegative(w) == w < 0

\* if molar_mass <= 0.0 { return Err(RefpropError::CalculationError(..)) }
MolarMassInvalid(w) == w <= 0

\* Every positive entry, whatever lies before it.
RECURSIVE FilterPositive(_)
FilterPositive(arr) ==
    IF arr = <<>> THEN <<>>
    ELSE IF Gt(Head(arr), 0) THEN <<Head(arr)>> \o FilterPositive(Tail(arr))
    ELSE FilterPositive(Tail(arr))

\* z.into_iter().take_while(|&zi| zi > 0.0).collect()
RECURSIVE TakeWhilePositive(_)
TakeWhilePositive(arr) ==
    IF arr = <<>> THEN <<>>
    ELSE IF Gt(Head(arr), 0) THEN <<Head(arr)>> \o TakeWhilePositive(Tail(arr))
    ELSE <<>>

\* The whole output buffer.
WholeOutputBuffer(c, out) == out.x

\* output_buffer[..i_out.len()].to_vec()
FirstOutputs(c, out) == Unpack(out.x, Len(IOut(c)))

\* FlashOutput: the heat capacities as options, x and y cut to z.len().
FlashOutput(c, heat, out) ==
    [Cv |-> heat.Cv, Cp |-> heat.Cp,
     x |-> Unpack(out.x, Len(c.z)), y |-> Unpack(out.y, Len(c.z))]

\* The value an operation returns after its error check passed.
BuildResult(c, loc) ==
    CASE Desc(c).ret = "flash_own" -> Ok(FlashOutput(c, SentinelOwn(loc.out), loc.out))
      [] Desc(c).ret = "flash_both" -> Ok(FlashOutput(c, SentinelBoth(loc.out), loc.out))
      [] Desc(c).ret = "marker" ->
            IF loc.out.val = ALLPROPS1_MARKER
            THEN Err("CalculationError", <<85>>)
            ELSE Ok(loc.out.val)
      [] Desc(c).ret = "fractions" ->
            IF MolarMassInvalid(loc.out.val) THEN Err("CalculationError", <<77>>)
            ELSE Ok([x |-> Unpack(loc.out.x, Len(c.z)), val |-> loc.out.val])
      [] Desc(c).ret = "quality" ->
            Ok([x |-> Unpack(loc.out.x, Len(c.z)), y |-> Unpack(loc.out.y, Len(c.zv)),
                val |-> loc.out.val])
      [] Desc(c).ret = "outputs" -> Ok(FirstOutputs(c, loc.out))
      [] Desc(c).ret = "mixture" -> Ok(TakeWhilePositive(loc.out.x))
      [] Desc(c).ret = "unit" -> Ok(0)
      [] OTHER -> Ok(loc.out.val)

\* check_refprop_error, and the same lines inlined in critical_parameters,
\* all_props0 and all_props1: whether the message is fetched.
\* A translation that fetches the message whatever the code.
NeedsErrmsgAnyCode(c, ierr) == Desc(c).err \in {"check_refprop_error", "inline"}

NeedsErrmsg(c, ierr) == Desc(c).err \in {"check_refprop_error", "inline"} /\ ierr # 0

\* A translation that reports every fetched message as an unknown error.
MessageResultsUnknown(buf) == {Err("UnknownError", <<>>)}

\* The error built from the message buffer after ERRMSGdll returned.  Reading
\* past the end of an unterminated buffer is undefined behaviour: the read may
\* stop right behind the buffer, run on over further bytes (valid text or
\* not), or fault ("crash").
MessageResults(buf) ==
    LET d == CStrToStr(buf)
    IN  CASE d.kind = "Ok" -> {Err("CalculationError", d.text)}
          [] d.kind = "Utf8Error" -> {Err("Utf8Error", <<>>)}
          [] d.kind = "ub" ->
                {Err("CalculationError", d.text), Err("CalculationError", d.text \o <<63>>),
                 Err("Utf8Error", <<>>), [kind |-> "crash", val |-> <<>>]}

\* str::trim_end, over text whose only whitespace is the blank.
RECURSIVE TrimEnd(_)
TrimEnd(text) ==
    IF text = <<>> THEN <<>>
    ELSE IF text[Len(text)] = 32 THEN TrimEnd(SubSeq(text, 1, Len(text) - 1))
    ELSE text

\* NameOutput from the texts read from the three fields.
NameOutput(texts) ==
    [hnam |-> TrimEnd(texts[1]), hn80 |-> TrimEnd(texts[2]), hcasn |-> TrimEnd(texts[3])]

\* What name returns: each field is read with CStr::from_ptr(..).to_str()?,
\* hnam first.  A field without a 0 byte is read past its end, which is
\* undefined behaviour: the read may stop right behind the field, run on over
\* further bytes (valid text or not), or fault.
NameResults(names) ==
    LET d == [i \in 1..3 |-> CStrToStr(names[i])]
        bad == {i \in 1..3 : d[i].kind # "Ok"}
        first == CHOOSE i \in bad : \A j \in bad : i <= j
    IN  IF bad = {} THEN {Ok(NameOutput([i \in 1..3 |-> d[i].text]))}
        ELSE IF d[first].kind = "Utf8Error" THEN {Err("Utf8Error", <<>>)}
        ELSE {Err("Utf8Error", <<>>), [kind |-> "crash", val |-> <<>>]}
             \cup (IF \E i \in bad : d[i].kind = "Utf8Error" THEN {}
                   ELSE {Ok(NameOutput([i \in 1..3 |-> d[i].text])),
                         Ok(NameOutput([i \in 1..3 |->
                                IF i \in bad THEN d[i].text \o <<63>> ELSE d[i].text]))})

---------------------------------------------------------------------------
(* The calls the threads draw from *)

ZPure == <<One>>

ZUnnormalized == <<One \div 2, One \div 4>>

ZFull == [i \in 1..MAX_COMPONENTS |-> One \div MAX_COMPONENTS]

ZTooLong == [i \in 1..(MAX_COMPONENTS + 1) |-> IF i = 1 THEN One ELSE 0]

ZEmpty == <<>>

ZBinary == <<One \div 2, One \div 2>>

\* Off by exactly the tolerance, and by twice the tolerance.
ZEdge == <<One + Tolerance>>

ZOver == <<One + 2 * Tolerance>>

ZNaN == <<NaN>>

Compositions == {ZPure, ZUnnormalized, ZFull, ZTooLong, ZEmpty, ZBinary, ZEdge, ZOver, ZNaN}

\* The vapor compositions of the quality conversions.
VaporCompositions == {ZPure, ZUnnormalized, ZTooLong, ZBinary}

CallsWithZ(op) == {[Args0 EXCEPT !.op = op, !.z = z] : z \in Compositions}

EnumStrings ==
    {Str(7, FALSE), Str(7, TRUE), Str(HENUM_LENGTH - 2, FALSE),
     Str(HENUM_LENGTH - 1, FALSE), Str(HENUM_LENGTH + 1, FALSE)}

FluidStrings ==
    {Str(7, FALSE), Str(7, TRUE), Str(MAX_FLUIDS_LENGTH - 2, FALSE),
     Str(MAX_FLUIDS_LENGTH - 1, FALSE), Str(MAX_FLUIDS_LENGTH + 1, FALSE)}

HoutStrings == {Str(1, FALSE), Str(1, TRUE), Str(HOUT_LENGTH + 1, FALSE)}

\* "PH", "ph", "PX", "P", "PHT", "\0P", and the single character U+00DF
AbCodes ==
    {<<80, 72>>, <<112, 104>>, <<80, 88>>, <<80>>, <<80, 72, 84>>, <<0, 80>>, <<223>>}

\* -99 and -98, the melting-line and sublimation-line inputs, a quality above
\* 1 and a quality that is not a number.
ReservedInputs == {-99 * One, -98 * One, One + One \div 2, NaN}

FullMenu ==
    {[Args0 EXCEPT !.op = "set_path", !.hasPath = h, !.env = e, !.str = s] :
        h \in BOOLEAN, e \in BOOLEAN, s \in {Str(7, FALSE), Str(7, TRUE)}}
    \cup {[Args0 EXCEPT !.op = "set_fluids", !.str = s] : s \in FluidStrings}
    \cup {[Args0 EXCEPT !.op = "set_mixture", !.str = s] : s \in {Str(7, FALSE), Str(7, TRUE)}}
    \cup {[Args0 EXCEPT !.op = "pure_fld"], [Args0 EXCEPT !.op = "name"],
          [Args0 EXCEPT !.op = "get_filename"]}
    \cup CallsWithZ("satspln") \cup CallsWithZ("critical_parameters")
    \cup {[Args0 EXCEPT !.op = "all_props0", !.z = z, !.nout = n] :
            z \in Compositions, n \in {0, 1, 2, MAX_OUTPUTS, MAX_OUTPUTS + 1}}
    \cup {[Args0 EXCEPT !.op = "all_props1", !.z = z, !.str = s, !.units = u] :
            z \in Compositions, s \in HoutStrings, u \in {"Default", "MKS", "User", "Custom"}}
    \cup {[Args0 EXCEPT !.op = "get_enum", !.str = s] : s \in EnumStrings}
    \cup CallsWithZ("calc_molar_mass")
    \cup CallsWithZ("convert_to_mass_fractions") \cup CallsWithZ("convert_to_mole_fractions")
    \cup {[Args0 EXCEPT !.op = op, !.q = q, !.z = z, !.zv = zv] :
            op \in {"convert_to_mass_quality", "convert_to_mole_quality"},
            q \in {0, One \div 2, One, One + One \div 2, -1, NaN},
            z \in Compositions, zv \in VaporCompositions}
    \cup CallsWithZ("transport_properties")
    \cup {[Args0 EXCEPT !.op = "ab_flash", !.ab = ab, !.z = z] :
            ab \in AbCodes, z \in Compositions}
    \cup {[Args0 EXCEPT !.op = op, !.ab = <<80, 72>>, !.z = ZPure,
                        !.imass_flag = b, !.kph_flag = p, !.krkq_flag = k] :
            op \in {"ab_flash", "pq_flash"}, b \in Basis, p \in Phase, k \in KrKqFlag}
    \cup {[Args0 EXCEPT !.op = "pq_flash", !.z = ZPure, !.q = q] : q \in ReservedInputs}
    \cup {[Args0 EXCEPT !.op = "ab_flash", !.ab = <<84, 81>>, !.z = ZPure, !.a = 300, !.b = b] :
            b \in ReservedInputs}
    \cup CallsWithZ("pd_flash") \cup CallsWithZ("ph_flash")
    \cup CallsWithZ("pq_flash") \cup CallsWithZ("td_flash")
    \cup {[Args0 EXCEPT !.op = "th_flash", !.z = z, !.kr = kr] :
            z \in Compositions, kr \in {0, 1, 2, 3}}

\* The calls of the concurrent runs: one of each way of using the gate.
ConcurrentMenu ==
    {[Args0 EXCEPT !.op = "set_fluids", !.str = Str(7, FALSE)],
     [Args0 EXCEPT !.op = "set_mixture", !.str = Str(7, TRUE)],
     [Args0 EXCEPT !.op = "get_enum", !.str = Str(HENUM_LENGTH + 1, FALSE)],
     [Args0 EXCEPT !.op = "ph_flash", !.z = ZPure],
     [Args0 EXCEPT !.op = "ph_flash", !.z = ZTooLong],
     [Args0 EXCEPT !.op = "critical_parameters", !.z = ZPure],
     [Args0 EXCEPT !.op = "all_props1", !.z = ZPure, !.str = Str(1, FALSE)],
     [Args0 EXCEPT !.op = "calc_molar_mass", !.z = ZPure],
     [Args0 EXCEPT !.op = "get_filename"]}

---------------------------------------------------------------------------
(* Actions *)

Init ==
    /\ mutexInit = FALSE
    /\ holder = 0
    /\ poisoned = FALSE
    /\ thr = [t \in Threads |-> Idle]
    /\ session = "none"
    /\ crashed = FALSE

\* A lock that never blocks.
LockNeverBlocks(t) == TRUE

\* A gate of its own for each way of taking it.
GatePerSite(site) == site

\* The Mutex an acquisition site locks: utils::acquire_lock and the inlined
\* acquisitions all name the one static, REFPROP_MUTEX.get_or_init(..).
GateInstance(site) == "REFPROP_MUTEX"

\* Mutex::lock returns once no other thread holds the guard of the same Mutex.
LockAvailable(t) ==
    IF holder = 0 THEN TRUE
    ELSE GateInstance(Desc(Active(thr[t])).gate)
            # GateInstance(Desc(Active(thr[holder])).gate)

\* A lock that recovers the guard of a poisoned mutex.
LockIgnoresPoison(t) == FALSE

\* Mutex::lock().map_err(|_| RefpropError::MutexPoisoned): a poisoned mutex
\* yields the error and the guard inside it is dropped.
LockFails(t) == poisoned

\* A public operation is called: its checks before the gate run, and a nested
\* public operation, if any, is entered (Units::get_iunits_code panics on the
\* variants it does not implement).
Invoke(t, menu) ==
    /\ ~crashed
    /\ thr[t].pc = "idle"
    /\ \E c \in menu :
        LET r0 == [Idle EXCEPT !.call = c]
        IN  thr' = [thr EXCEPT ![t] =
                IF PreCheck(c) # "Ok"
                THEN [r0 EXCEPT !.pc = "done", !.res = Err(PreCheck(c), <<>>)]
                ELSE IF Desc(c).nested = "get_iunits_code"
                THEN IF c.units \in UnitsWithString
                     THEN [r0 EXCEPT !.pc = "lock",
                                     !.sub = [Args0 EXCEPT !.op = "get_enum",
                                                !.str = Str(UnitsStringLen(c.units), FALSE)]]
                     ELSE [r0 EXCEPT !.pc = "panicked"]
                ELSE IF Desc(c).nested = "name"
                THEN [r0 EXCEPT !.pc = "lock",
                                !.sub = [Args0 EXCEPT !.op = "name", !.icomp = -c.icomp]]
                ELSE [r0 EXCEPT !.pc = "lock"]]
    /\ UNCHANGED <<mutexInit, holder, poisoned, session, crashed>>

\* The gate is taken (REFPROP_MUTEX.get_or_init(..).lock()) and the body runs
\* up to its native call: the checks and copies made under the gate either
\* pass, return InvalidInput (the guard is dropped on return) or panic (the
\* guard is dropped while panicking, which poisons the mutex).
Acquire(t) ==
    /\ ~crashed
    /\ thr[t].pc = "lock"
    /\ LockAvailable(t)
    /\ mutexInit' = TRUE
    /\ LET r == thr[t]
           c == Active(r)
           seen == [r EXCEPT !.obs.gate = @ + 1]
       IN  IF LockFails(t)
           THEN /\ thr' = [thr EXCEPT ![t] = Returned(seen, Err("MutexPoisoned", <<>>))]
                /\ UNCHANGED <<holder, poisoned>>
           ELSE IF PostCheck(c) = "InvalidInput"
           THEN /\ thr' = [thr EXCEPT ![t] = Returned(seen, Err("InvalidInput", <<>>))]
                /\ UNCHANGED <<holder, poisoned>>
           ELSE IF PostCheck(c) = "panic"
           THEN /\ thr' = [thr EXCEPT ![t] = [seen EXCEPT !.pc = "panicked"]]
                /\ poisoned' = TRUE
                /\ UNCHANGED holder
           ELSE /\ thr' = [thr EXCEPT ![t] = [seen EXCEPT !.pc = "call", !.loc = LocInit(c)]]
                /\ holder' = t
                /\ UNCHANGED poisoned
    /\ UNCHANGED <<session, crashed>>

\* The entry point the thread is about to call.
EntryPoint(r) == IF r.loc.phase = "errmsg" THEN "ERRMSGdll" ELSE Desc(Active(r)).entry

\* The thread enters the native library.  Every other thread that is in the
\* middle of an invocation which has already made a native call sees a
\* foreign call come in between.
NativeEnter(t) ==
    /\ ~crashed
    /\ thr[t].pc = "call"
    /\ thr' = [u \in Threads |->
                IF u = t
                THEN [thr[t] EXCEPT !.pc = "native",
                                    !.obs.calls = Append(@, EntryPoint(thr[t])),
                                    !.obs.zbuf = thr[t].loc.zbuf,
                                    !.obs.zvbuf = thr[t].loc.zvbuf,
                                    !.obs.iflag = thr[t].loc.iflag,
                                    !.obs.ab = thr[t].loc.c_ab,
                                    !.obs.q = thr[t].loc.q,
                                    !.obs.a = thr[t].loc.a,
                                    !.obs.b = thr[t].loc.b,
                                    !.obs.ptrs = thr[t].loc.ptrs,
                                    !.obs.i_in = thr[t].loc.i_in,
                                    !.obs.i_out_buffer = thr[t].loc.i_out_buffer,
                                    !.obs.msgLen = IF thr[t].loc.phase = "errmsg"
                                                   THEN thr[t].loc.herr.cap ELSE @]
                ELSE IF thr[u].pc \in {"lock", "call", "native", "finish"}
                        /\ thr[u].obs.calls # <<>>
                THEN [thr[u] EXCEPT !.obs.intruded = TRUE]
                ELSE thr[u]]
    /\ UNCHANGED <<mutexInit, holder, poisoned, session, crashed>>

\* The thread after a primary call returned `ierr`, having written `herr` and
\* `out`: the call is repeated while the loop of the body runs, then the error
\* code of the last call decides whether ERRMSGdll is called.
AfterPrimary(r, ierr, herr, out) ==
    LET c == Active(r)
        r1 == [r EXCEPT !.loc.ierr = ierr, !.loc.herr = herr, !.loc.out = out,
                        !.loc.left = @ - 1, !.obs.codes = Append(@, ierr),
                        !.obs.out = out]
    IN  IF r1.loc.left > 0 THEN [r1 EXCEPT !.pc = "call"]
        ELSE IF NeedsErrmsg(c, ierr) THEN [r1 EXCEPT !.pc = "call", !.loc.phase = "errmsg"]
        ELSE [r1 EXCEPT !.pc = "finish"]

\* A guard dropped before the error code is translated.
HolderDropsBeforeTranslation(t, c, ierr) == IF ierr # 0 THEN 0 ELSE t

\* The guard is a local of the operation's body: it is alive, and the gate
\* held by `t`, when the primary call has returned and the error code is
\* looked at, whatever the code.
HolderAfterPrimary(t, c, ierr) == t

\* The native library returns.  A failing primary call leaves the numeric
\* outputs alone and may write the message buffer it was given; a successful
\* one writes its outputs.  ERRMSGdll may rewrite the buffer or leave it.
NativeReturn(t, native) ==
    /\ ~crashed
    /\ thr[t].pc = "native"
    /\ LET r == thr[t]
           c == Active(r)
           d == Desc(c)
       IN  IF r.loc.phase = "errmsg"
           THEN /\ \E h \in HerrWrites(r.loc.herr, native) :
                     thr' = [thr EXCEPT ![t] = [r EXCEPT !.pc = "finish", !.loc.herr = h,
                                                         !.obs.herr = h]]
                /\ UNCHANGED <<session, holder>>
           ELSE \E ierr \in (IF d.ierr THEN Ierrs ELSE {0}) :
                  \E h \in (IF d.herrIn /\ ierr # 0
                            THEN HerrWrites(r.loc.herr, native)
                            ELSE {r.loc.herr}) :
                    \E out \in (IF ierr = 0 THEN NativeOutputs(c, r.loc.out, native) ELSE {r.loc.out}) :
                       /\ thr' = [thr EXCEPT ![t] = AfterPrimary(r, ierr, h, out)]
                       /\ session' = SessionAfter(c, ierr, session)
                       /\ holder' = HolderAfterPrimary(t, c, ierr)
    /\ UNCHANGED <<mutexInit, poisoned, crashed>>

\* The results the body may return with.
FinishResults(r) ==
    IF r.loc.phase = "errmsg" THEN MessageResults(r.loc.herr)
    ELSE IF Desc(Active(r)).ret = "name" THEN NameResults(r.loc.out.names)
    ELSE {BuildResult(Active(r), r.loc)}

\* A guard that is kept when the body returns an error.
HolderKeptOnError(t, res) == IF res.kind = "Ok" THEN 0 ELSE t

\* The guard is a local of the body (`let _lock = acquire_lock()?`): it is
\* dropped, and the gate free, when the body returns, whatever it returns.
HolderAfterReturn(t, res) == 0

\* The body returns (or the process dies of the undefined behaviour); the
\* guard is dropped on the way out.
Finish(t) ==
    /\ ~crashed
    /\ thr[t].pc = "finish"
    /\ \E res \in FinishResults(thr[t]) :
         IF res.kind = "crash"
         THEN /\ crashed' = TRUE
              /\ UNCHANGED <<thr, holder>>
         ELSE /\ thr' = [thr EXCEPT ![t] = Returned(thr[t], res)]
              /\ holder' = HolderAfterReturn(t, res)
              /\ UNCHANGED crashed
    /\ UNCHANGED <<mutexInit, poisoned, session>>

\* The caller takes the result; the thread is free to call again.
Return(t) ==
    /\ ~crashed
    /\ thr[t].pc = "done"
    /\ thr' = [thr EXCEPT ![t] = Idle]
    /\ UNCHANGED <<mutexInit, holder, poisoned, session, crashed>>

Step(t, menu, native) ==
    \/ Invoke(t, menu)
    \/ Acquire(t)
    \/ NativeEnter(t)
    \/ NativeReturn(t, native)
    \/ Finish(t)
    \/ Return(t)

\* Concurrent callers.
Next == \E t \in Threads : Step(t, ConcurrentMenu, LeanNative)

Spec == Init /\ [][Next]_vars

\* One caller, every operation with every kind of argument.
NextSeq == Step(1, FullMenu, FullNative)

SpecSeq == Init /\ [][NextSeq]_vars


---------------------------------------------------------------------------
(* Properties *)

\* Number of times entry point `e` occurs in the call record `calls`.
CountCalls(calls, e) == Len(SelectSeq(calls, LAMBDA x : x = e))

\* The operations that take a composition.
CompositionOps ==
    {"satspln", "critical_parameters", "all_props0", "all_props1", "calc_molar_mass",
     "convert_to_mass_fractions", "convert_to_mole_fractions",
     "convert_to_mass_quality", "convert_to_mole_quality", "transport_properties",
     "ab_flash", "pd_flash", "ph_flash", "pq_flash", "td_flash", "th_flash"}

\* The call passes a composition of MAX_COMPONENTS + 1 entries.
CompositionTooLong(c) ==
    /\ c.op \in CompositionOps
    /\ \/ Len(c.z) = MAX_COMPONENTS + 1
       \/ /\ c.op \in {"convert_to_mass_quality", "convert_to_mole_quality"}
          /\ Len(c.zv) = MAX_COMPONENTS + 1

\* The text a message buffer holds: its bytes up to the first 0 byte, or the
\* whole field when it holds none (the padding written once).
BufferMessage(buf) ==
    IF HasNul(buf) THEN UpToNul(buf.bytes) ELSE buf.bytes \o <<buf.fill>>

\* C1: a thread inside a native-call span holds the gate, and no two threads
\* are inside a native-call span at the same instant.
C1_MutualExclusion ==
    \A t \in Threads :
        thr[t].pc = "native" =>
            /\ holder = t
            /\ \A u \in Threads \ {t} : thr[u].pc # "native"

\* A thread is inside the native library while another one waits at the gate.
C1_Witness ==
    \E t \in Threads, u \in Threads :
        /\ t # u
        /\ thr[t].pc = "native"
        /\ thr[u].pc = "lock"

\* C2: from the return of a primary call with a nonzero code until ERRMSGdll
\* has returned and the message is read, the thread holds the gate and no
\* other thread is inside the native library.
C2_ErrmsgInSameCriticalSection ==
    \A t \in Threads :
        (thr[t].loc.phase = "errmsg" /\ thr[t].pc \in {"call", "native", "finish"}) =>
            /\ holder = t
            /\ \A u \in Threads \ {t} : thr[u].pc \notin {"call", "native", "finish"}

\* A thread is inside ERRMSGdll after its primary call failed, while another
\* thread waits at the gate with a call of its own.
C2_Witness ==
    \E t \in Threads, u \in Threads :
        /\ t # u
        /\ thr[t].pc = "native"
        /\ thr[t].loc.phase = "errmsg"
        /\ thr[t].obs.codes # <<>>
        /\ thr[t].obs.codes[Len(thr[t].obs.codes)] # 0
        /\ thr[u].pc = "lock"

\* C3: whenever a thread is inside a native call of an invocation, no other
\* thread has called into the native library since the first native call of
\* that invocation.
C3_NoPartialCallInterleaving ==
    \A t \in Threads : thr[t].pc = "native" => ~thr[t].obs.intruded

\* C4: an invocation that returned InvalidInput never took the gate and made
\* no native call.
C4_InvalidInputBeforeGate ==
    \A t \in Threads :
        (thr[t].pc = "done" /\ thr[t].res.kind = "InvalidInput") =>
            /\ thr[t].obs.gate = 0
            /\ thr[t].obs.calls = <<>>

\* C5: an operation called with a composition of 21 entries has returned
\* InvalidInput, without taking the gate and without a native call.
C5_TooLongCompositionRejected ==
    \A t \in Threads :
        CompositionTooLong(thr[t].call) =>
            /\ thr[t].pc = "done"
            /\ thr[t].res.kind = "InvalidInput"
            /\ thr[t].obs.gate = 0
            /\ thr[t].obs.calls = <<>>

\* all_props1 was called with 21 entries and a Units variant that has no code:
\* it returned InvalidInput.
C5_Witness ==
    \E t \in Threads :
        /\ thr[t].pc = "done"
        /\ thr[t].call.op = "all_props1"
        /\ thr[t].call.units = "User"
        /\ Len(thr[t].call.z) = MAX_COMPONENTS + 1
        /\ thr[t].res.kind = "InvalidInput"

\* C6: an operation that translates errors with check_refprop_error and whose
\* primary call set a nonzero code has called ERRMSGdll exactly once, with its
\* message buffer at its declared length, and has returned CalculationError
\* with exactly the message ERRMSGdll left in the buffer.
C6_NonzeroCodeTranslated ==
    \A t \in Threads :
        (/\ thr[t].pc = "done"
         /\ Desc(thr[t].call).err = "check_refprop_error"
         /\ \E i \in 1..Len(thr[t].obs.codes) : thr[t].obs.codes[i] # 0) =>
            /\ CountCalls(thr[t].obs.calls, "ERRMSGdll") = 1
            /\ thr[t].obs.msgLen = Desc(thr[t].call).herr
            /\ thr[t].res.kind = "CalculationError"
            /\ thr[t].res.val = BufferMessage(thr[t].obs.herr)

C8_NoErrorSwallowed ==
    \A t \in Threads :
        (/\ thr[t].pc = "done"
         /\ \E i \in 1..Len(thr[t].obs.codes) : thr[t].obs.codes[i] # 0) =>
            thr[t].res.kind \in {"CalculationError", "Utf8Error"}

\* C9: a flash routine that returned Ok returned each heat capacity as None
\* when the native value is CV_UNDEFINED or CP_UNDEFINED and as Some of the
\* native value otherwise.
C9_BothSentinelsChecked ==
    \A t \in Threads :
        (/\ thr[t].pc = "done"
         /\ thr[t].call.op \in FlashOps
         /\ thr[t].res.kind = "Ok") =>
            /\ thr[t].res.val.Cv =
                 (IF thr[t].obs.out.Cv \in {CV_UNDEFINED, CP_UNDEFINED}
                  THEN None ELSE Some(thr[t].obs.out.Cv))
            /\ thr[t].res.val.Cp =
                 (IF thr[t].obs.out.Cp \in {CV_UNDEFINED, CP_UNDEFINED}
                  THEN None ELSE Some(thr[t].obs.out.Cp))

\* C10: once the mutex is poisoned it stays poisoned, nobody holds the gate or
\* starts a native call, and a thread that leaves the gate has returned
\* MutexPoisoned without a further native call.
C10_PoisonAbsorbing ==
    [][poisoned =>
        /\ poisoned'
        /\ holder' = 0
        /\ \A t \in Threads :
            /\ thr'[t].pc \notin {"call", "native", "finish"}
            /\ (thr[t].pc = "lock" /\ thr'[t].pc # "lock") =>
                /\ thr'[t].pc = "done"
                /\ thr'[t].res.kind = "MutexPoisoned"
                /\ thr'[t].obs.calls = thr[t].obs.calls]_vars

\* A thread panicked under the gate and another one, arriving at the gate
\* later, returned MutexPoisoned.
C10_Witness ==
    /\ poisoned
    /\ \E t \in Threads, u \in Threads :
        /\ thr[t].pc = "panicked"
        /\ thr[u].pc = "done"
        /\ thr[u].res.kind = "MutexPoisoned"

\* C11: no operation panics, and the gate is never poisoned.
C11_NoPanic ==
    /\ \A t \in Threads : thr[t].pc # "panicked"
    /\ ~poisoned

\* The predicate of validate_composition: at most MAX_COMPONENTS entries whose
\* sum is a number within Tolerance of One.
CompositionPredicate(z) ==
    /\ Len(z) <= MAX_COMPONENTS
    /\ Sum(z) # NaN
    /\ Sum(z) - One <= Tolerance
    /\ One - Sum(z) <= Tolerance

\* C12: an operation whose only check before the gate is validate_composition
\* has returned InvalidInput without taking the gate exactly when its
\* composition does not satisfy the predicate, and goes on to the gate
\* otherwise.
C12_ValidateIsIndicator ==
    \A t \in Threads :
        (thr[t].pc # "idle" /\ Desc(thr[t].call).pre = <<"z">>) =>
            ((/\ thr[t].pc = "done"
              /\ thr[t].res.kind = "InvalidInput"
              /\ thr[t].obs.gate = 0)
             <=> ~CompositionPredicate(thr[t].call.z))

\* C13: the flag handed to the native call by ab_flash and pq_flash is
\* basis + 10 * phase + 100 * krkq, from which (mod 10, div 10 mod 10, div 100)
\* gives back the three selections; and no other selection over Basis, Phase
\* and KrKqFlag is encoded as the same flag.
C13_FlagEncoding ==
    \A t \in Threads :
        (/\ thr[t].call.op \in {"ab_flash", "pq_flash"}
         /\ thr[t].obs.calls # <<>>) =>
            /\ thr[t].obs.iflag = thr[t].call.imass_flag + 10 * thr[t].call.kph_flag
                                    + 100 * thr[t].call.krkq_flag
            /\ thr[t].obs.iflag % 10 = thr[t].call.imass_flag
            /\ (thr[t].obs.iflag \div 10) % 10 = thr[t].call.kph_flag
            /\ thr[t].obs.iflag \div 100 = thr[t].call.krkq_flag
            /\ \A b \in Basis, p \in Phase, k \in KrKqFlag :
                 EncodeFlag(b, p, k) = thr[t].obs.iflag =>
                    /\ b = thr[t].call.imass_flag
                    /\ p = thr[t].call.kph_flag
                    /\ k = thr[t].call.krkq_flag

\* pq_flash is inside PQFLSHdll with Basis 2, Phase 3 and KrKqFlag 4.
C13_Witness ==
    \E t \in Threads :
        /\ thr[t].pc = "native"
        /\ thr[t].call.op = "pq_flash"
        /\ thr[t].call.imass_flag = 2
        /\ thr[t].call.kph_flag = 3
        /\ thr[t].call.krkq_flag = 4
        /\ thr[t].obs.iflag = 432

\* The operations that return composition vectors.
VectorOps ==
    FlashOps \cup {"convert_to_mass_fractions", "convert_to_mole_fractions",
                   "convert_to_mass_quality", "convert_to_mole_quality"}

\* `buf` is the MAX_COMPONENTS-slot image of `z`: z in its first slots, in
\* order, and 0 in the others; cut to the length of z it is z again.
IsPacked(buf, z) ==
    /\ Len(buf) = MAX_COMPONENTS
    /\ \A i \in 1..MAX_COMPONENTS : buf[i] = (IF i <= Len(z) THEN z[i] ELSE 0)
    /\ Unpack(buf, Len(z)) = z

\* `v` is the first n slots of the native array `arr`.
IsPrefix(v, arr, n) ==
    /\ Len(v) = n
    /\ \A i \in 1..n : v[i] = arr[i]

\* C14: the composition buffers handed to a native call are the zero-padded
\* images of the caller's compositions, and every composition vector an
\* operation returns is the native output array cut to the length of the
\* corresponding input.
C14_MarshalingRoundTrip ==
    \A t \in Threads :
        /\ (/\ thr[t].call.op \in CompositionOps
            /\ CountCalls(thr[t].obs.calls, Desc(thr[t].call).entry) > 0) =>
              /\ IsPacked(thr[t].obs.zbuf, thr[t].call.z)
              /\ thr[t].call.op \in {"convert_to_mass_quality", "convert_to_mole_quality"} =>
                    IsPacked(thr[t].obs.zvbuf, thr[t].call.zv)
        /\ (thr[t].pc = "done" /\ thr[t].res.kind = "Ok" /\ thr[t].call.op \in VectorOps) =>
              /\ IsPrefix(thr[t].res.val.x, thr[t].obs.out.x, Len(thr[t].call.z))
              /\ thr[t].call.op \in FlashOps =>
                    IsPrefix(thr[t].res.val.y, thr[t].obs.out.y, Len(thr[t].call.z))
              /\ thr[t].call.op \in {"convert_to_mass_quality", "convert_to_mole_quality"} =>
                    IsPrefix(thr[t].res.val.y, thr[t].obs.out.y, Len(thr[t].call.zv))

\* td_flash returned a one-component x and y out of native arrays with all
\* MAX_COMPONENTS slots written.
C14_Witness ==
    \E t \in Threads :
        /\ thr[t].pc = "done"
        /\ thr[t].call.op = "td_flash"
        /\ thr[t].res.kind = "Ok"
        /\ Len(thr[t].call.z) = 1
        /\ Len(thr[t].res.val.x) = 1
        /\ Len(thr[t].obs.out.x) = MAX_COMPONENTS
        /\ thr[t].obs.out.x[2] # 0

\* C15: a quality conversion called with a quality that is not in [0, 1] has
\* returned InvalidInput without taking the gate and without a native call,
\* whatever its compositions.
C15_QualityOutOfRangeRejected ==
    \A t \in Threads :
        (/\ thr[t].call.op \in {"convert_to_mass_quality", "convert_to_mole_quality"}
         /\ ~(thr[t].call.q # NaN /\ 0 <= thr[t].call.q /\ thr[t].call.q <= One)) =>
            /\ thr[t].pc = "done"
            /\ thr[t].res.kind = "InvalidInput"
            /\ thr[t].obs.gate = 0
            /\ thr[t].obs.calls = <<>>

\* C16: th_flash called with a composition that passes validate_composition
\* and a kr other than 1 and 2 has returned InvalidInput without taking the
\* gate and without calling THFLSHdll.
C16_InvalidKrRejected ==
    \A t \in Threads :
        (/\ thr[t].call.op = "th_flash"
         /\ validate_composition(thr[t].call.z) = "Ok"
         /\ thr[t].call.kr \notin {1, 2}) =>
            /\ thr[t].pc = "done"
            /\ thr[t].res.kind = "InvalidInput"
            /\ thr[t].obs.gate = 0
            /\ thr[t].obs.calls = <<>>

\* th_flash was called with kr = 3 and a one-component composition and
\* returned InvalidInput.
C16_Witness ==
    \E t \in Threads :
        /\ thr[t].pc = "done"
        /\ thr[t].call.op = "th_flash"
        /\ thr[t].call.z = ZPure
        /\ thr[t].call.kr = 3
        /\ thr[t].res.kind = "InvalidInput"

\* C17: get_enum called with a string of more than HENUM_LENGTH bytes (and no
\* 0 byte) does not panic, calls GETENUMdll once it is past the gate, and does
\* not return InvalidInput.
C17_EnumStringTruncated ==
    \A t \in Threads :
        (/\ thr[t].call.op = "get_enum"
         /\ thr[t].call.str.len > HENUM_LENGTH
         /\ ~thr[t].call.str.nul
         /\ thr[t].pc \notin {"idle", "lock"}) =>
            /\ thr[t].pc \in {"call", "native", "finish", "done"}
            /\ thr[t].pc # "call" => CountCalls(thr[t].obs.calls, "GETENUMdll") = 1
            /\ thr[t].pc = "done" => thr[t].res.kind \in {"Ok", "CalculationError", "Utf8Error"}

\* C18: set_fluids called with a string of more than MAX_FLUIDS_LENGTH bytes
\* has, once past the gate, returned InvalidInput without calling
\* SETFLUIDSdll.
C18_LongFluidsRejected ==
    \A t \in Threads :
        (/\ thr[t].call.op = "set_fluids"
         /\ thr[t].call.str.len > MAX_FLUIDS_LENGTH
         /\ thr[t].pc \notin {"idle", "lock"}) =>
            /\ thr[t].pc = "done"
            /\ thr[t].res.kind = "InvalidInput"
            /\ CountCalls(thr[t].obs.calls, "SETFLUIDSdll") = 0

\* The string argument of the call holds a 0 byte.
HasEmbeddedNul(c) ==
    CASE c.op \in {"set_fluids", "set_mixture", "get_enum", "all_props1"} -> c.str.nul
      [] c.op = "set_path" -> c.hasPath /\ c.str.nul
      [] c.op = "ab_flash" -> \E i \in 1..Len(c.ab) : c.ab[i] = 0
      [] OTHER -> FALSE

\* C19: an operation called with a string that holds a 0 byte has, once past
\* the gate if it takes the gate first, returned InvalidInput without a
\* native call.
C19_EmbeddedNulRejected ==
    \A t \in Threads :
        (HasEmbeddedNul(thr[t].call) /\ thr[t].pc \notin {"idle", "lock"}) =>
            /\ thr[t].pc = "done"
            /\ thr[t].res.kind = "InvalidInput"
            /\ thr[t].obs.calls = <<>>

\* C20: an operation that has fetched a message that ends inside the buffer
\* and is not valid UTF-8 has returned Utf8Error and no longer holds the gate.
C20_InvalidMessageIsUtf8Error ==
    \A t \in Threads :
        (/\ thr[t].pc = "done"
         /\ CountCalls(thr[t].obs.calls, "ERRMSGdll") > 0
         /\ HasNul(thr[t].obs.herr)
         /\ ~ValidUtf8(BufferMessage(thr[t].obs.herr))) =>
            /\ thr[t].res.kind = "Utf8Error"
            /\ holder # t

\* set_mixture got a nonzero code, fetched a terminated message with a byte
\* that is not UTF-8, and returned Utf8Error.
C20_Witness ==
    \E t \in Threads :
        /\ thr[t].pc = "done"
        /\ thr[t].call.op = "set_mixture"
        /\ thr[t].obs.codes = <<1>>
        /\ thr[t].obs.calls = <<"SETMIXTUREdll", "ERRMSGdll">>
        /\ thr[t].obs.herr.bytes = <<255>>
        /\ HasNul(thr[t].obs.herr)
        /\ thr[t].res.kind = "Utf8Error"
        /\ holder = 0

\* C21: an invocation never calls its primary entry point more than once, and
\* a body that got past the gate and is about to return has called it exactly
\* once.
C21_PrimaryCalledOnce ==
    \A t \in Threads :
        (thr[t].pc # "idle" /\ Desc(thr[t].call).entry # "none") =>
            /\ CountCalls(thr[t].obs.calls, Desc(thr[t].call).entry) <= 1
            /\ (thr[t].pc = "finish" /\ thr[t].sub.op = "none") =>
                    CountCalls(thr[t].obs.calls, Desc(thr[t].call).entry) = 1

\* C22: a ph_flash call with composition [1.0] that returned Ok, the native
\* library having left either a heat capacity in both slots or one of the two
\* sentinels in each of them, returned Cv and Cp both present or both absent.
C22_HeatCapacitiesTogether ==
    \A t \in Threads :
        (/\ thr[t].pc = "done"
         /\ thr[t].call.op = "ph_flash"
         /\ thr[t].call.z = ZPure
         /\ thr[t].res.kind = "Ok"
         /\ (thr[t].obs.out.Cv \in {CV_UNDEFINED, CP_UNDEFINED}
                <=> thr[t].obs.out.Cp \in {CV_UNDEFINED, CP_UNDEFINED})) =>
            (thr[t].res.val.Cv.some <=> thr[t].res.val.Cp.some)

\* The code is exactly two characters, each of them, in upper case, one of
\* T, P, D, E, H, S, Q.
AbCodeAcceptable(ab) ==
    /\ Len(ab) = 2
    /\ \A i \in 1..2 : ToUpperChar(ab[i]) \in {<<ch>> : ch \in ValidAbChars}

\* C23: ab_flash called with a code that is not acceptable has returned
\* InvalidInput without taking the gate or calling ABFLSHdll, and ab_flash
\* inside ABFLSHdll has an acceptable code and has passed its two characters in
\* upper case.
C23_AbCodeChecked ==
    \A t \in Threads :
        thr[t].call.op = "ab_flash" =>
            /\ ~AbCodeAcceptable(thr[t].call.ab) =>
                    /\ thr[t].pc = "done"
                    /\ thr[t].res.kind = "InvalidInput"
                    /\ thr[t].obs.gate = 0
                    /\ thr[t].obs.calls = <<>>
            /\ thr[t].pc = "native" =>
                    /\ AbCodeAcceptable(thr[t].call.ab)
                    /\ Len(thr[t].obs.ab) = 2
                    /\ \A i \in 1..2 : <<thr[t].obs.ab[i]>> = ToUpperChar(thr[t].call.ab[i])

\* The acquisition site of the body the thread is executing.
Site(t) == Desc(Active(thr[t])).gate

\* C24: the gate exists once it is held, a thread between taking the gate and
\* returning is its holder whatever the site it took it at, and no two threads
\* are between taking the gate and returning at the same instant, the threads
\* of the very first operations included.
C24_SingleGate ==
    /\ holder # 0 => mutexInit
    /\ \A t \in Threads :
        thr[t].pc \in {"call", "native", "finish"} =>
            /\ mutexInit
            /\ holder = t
            /\ \A u \in Threads \ {t} : thr[u].pc \notin {"call", "native", "finish"}

\* A thread that took the gate at an inlined acquisition is inside the native
\* library with its first call, and another thread, which has not had the
\* gate yet, waits in acquire_lock.
C24_Witness ==
    \E t \in Threads, u \in Threads :
        /\ t # u
        /\ mutexInit
        /\ thr[t].pc = "native"
        /\ Site(t) = "inline_lock"
        /\ thr[t].obs.gate = 1
        /\ Len(thr[t].obs.calls) = 1
        /\ holder = t
        /\ thr[u].pc = "lock"
        /\ Site(u) = "acquire_lock"
        /\ thr[u].obs.gate = 0

C26_SumNotChecked ==
    \A t \in Threads :
        thr[t].call.op = "calc_molar_mass" =>
            IF Len(thr[t].call.z) > MAX_COMPONENTS
            THEN /\ thr[t].pc = "done"
                 /\ thr[t].res.kind = "InvalidInput"
                 /\ thr[t].obs.gate = 0
            ELSE ~(thr[t].pc = "done" /\ thr[t].res.kind = "InvalidInput")

\* The sum of the composition is a number further than Tolerance from One.
SumOff(z) ==
    /\ Sum(z) # NaN
    /\ (Sum(z) - One > Tolerance \/ One - Sum(z) > Tolerance)

\* C26, amended: calc_molar_mass called with more than MAX_COMPONENTS entries
\* or with a sum further than Tolerance from One has returned InvalidInput
\* without taking the gate or calling WMOLdll; called with any other
\* composition it is never answered with InvalidInput, and when it returns Ok
\* it has called WMOLdll once with the zero-padded image of the composition.
C26_MolarMassValidated ==
    \A t \in Threads :
        thr[t].call.op = "calc_molar_mass" =>
            IF Len(thr[t].call.z) > MAX_COMPONENTS \/ SumOff(thr[t].call.z)
            THEN /\ thr[t].pc = "done"
                 /\ thr[t].res.kind = "InvalidInput"
                 /\ thr[t].obs.gate = 0
                 /\ thr[t].obs.calls = <<>>
            ELSE /\ ~(thr[t].pc = "done" /\ thr[t].res.kind = "InvalidInput")
                 /\ (thr[t].pc = "done" /\ thr[t].res.kind = "Ok") =>
                        /\ thr[t].obs.calls = <<"WMOLdll">>
                        /\ IsPacked(thr[t].obs.zbuf, thr[t].call.z)

\* calc_molar_mass was called with a two-entry composition whose sum is 0.75
\* and returned InvalidInput.
C26_Witness ==
    \E t \in Threads :
        /\ thr[t].pc = "done"
        /\ thr[t].call.op = "calc_molar_mass"
        /\ thr[t].call.z = ZUnnormalized
        /\ thr[t].res.kind = "InvalidInput"
        /\ thr[t].obs.gate = 0

\* The scheduling the claim assumes: a thread that can go on inside a body
\* does go on, native calls return, and a thread waiting at a gate that is
\* free again and again gets it (a fair gate).
Fairness ==
    \A t \in Threads :
        /\ SF_vars(Acquire(t))
        /\ WF_vars(NativeEnter(t))
        /\ WF_vars(NativeReturn(t, LeanNative))
        /\ WF_vars(Finish(t))

\* Concurrent callers under that scheduling.
SpecFair == Spec /\ Fairness

\* C27: a thread that is about to take the gate does not hold it, and every
\* operation that was called returns.
C27_EveryOperationReturns ==
    /\ [](\A t \in Threads : thr[t].pc = "lock" => holder # t)
    /\ \A t \in Threads : (thr[t].pc = "lock") ~> (thr[t].pc = "done")

\* C28: when an operation that had the gate returns Ok, InvalidInput,
\* CalculationError or Utf8Error, the gate is free and not poisoned.
C28_GateReleasedOnReturn ==
    [][\A t \in Threads :
        (/\ thr[t].pc # "done"
         /\ thr'[t].pc = "done"
         /\ thr'[t].obs.gate > 0
         /\ thr'[t].res.kind \in {"Ok", "InvalidInput", "CalculationError", "Utf8Error"}) =>
            /\ holder' = 0
            /\ ~poisoned']_vars

\* set_fluids found the 0 byte in its string after it had taken the gate and
\* returned InvalidInput; the gate is free and not poisoned.
C28_Witness ==
    \E t \in Threads :
        /\ thr[t].pc = "done"
        /\ thr[t].call.op = "set_fluids"
        /\ thr[t].call.str.nul
        /\ thr[t].obs.gate = 1
        /\ thr[t].res.kind = "InvalidInput"
        /\ holder = 0
        /\ ~poisoned

\* C29: a fraction conversion whose native call has returned has returned
\* CalculationError when the molar mass the call wrote is zero or less, and
\* otherwise Ok with the first n slots of the native array, n the length of
\* its composition, and that molar mass; calc_molar_mass has returned Ok with
\* the molar mass as written, whatever its sign.
C29_MolarMassHeuristic ==
    \A t \in Threads :
        (thr[t].pc = "done" /\ thr[t].obs.calls # <<>>) =>
            /\ thr[t].call.op \in {"convert_to_mass_fractions", "convert_to_mole_fractions"} =>
                IF thr[t].obs.out.val <= 0
                THEN thr[t].res.kind = "CalculationError"
                ELSE /\ thr[t].res.kind = "Ok"
                     /\ IsPrefix(thr[t].res.val.x, thr[t].obs.out.x, Len(thr[t].call.z))
                     /\ thr[t].res.val.val = thr[t].obs.out.val
            /\ thr[t].call.op = "calc_molar_mass" =>
                thr[t].res = Ok(thr[t].obs.out.val)

\* convert_to_mole_fractions returned CalculationError on a molar mass of zero,
\* XMOLEdll having written all of the fractions.
C29_Witness ==
    \E t \in Threads :
        /\ thr[t].pc = "done"
        /\ thr[t].call.op = "convert_to_mole_fractions"
        /\ thr[t].call.z = ZBinary
        /\ thr[t].obs.calls = <<"XMOLEdll">>
        /\ thr[t].obs.out.val = 0
        /\ thr[t].obs.out.x[1] # 0
        /\ thr[t].res.kind = "CalculationError"

\* C30: pq_flash called with a composition that passes validate_composition is
\* never answered with InvalidInput, whatever q, and hands PQFLSHdll the q it
\* was called with; ab_flash hands ABFLSHdll the a and b it was called with.
C30_ReservedInputsPassedThrough ==
    \A t \in Threads :
        /\ (thr[t].call.op = "pq_flash" /\ validate_composition(thr[t].call.z) = "Ok") =>
              /\ ~(thr[t].pc = "done" /\ thr[t].res.kind = "InvalidInput")
              /\ thr[t].pc = "native" => thr[t].obs.q = thr[t].call.q
        /\ (thr[t].call.op = "ab_flash" /\ thr[t].pc = "native") =>
              /\ thr[t].obs.a = thr[t].call.a
              /\ thr[t].obs.b = thr[t].call.b

\* pq_flash is inside PQFLSHdll with q = -99.
C30_Witness ==
    \E t \in Threads :
        /\ thr[t].pc = "native"
        /\ thr[t].call.op = "pq_flash"
        /\ thr[t].call.q = -99 * One
        /\ thr[t].obs.calls = <<"PQFLSHdll">>
        /\ thr[t].obs.q = -99 * One

\* The operations that test the length of the composition and nothing else.
LengthOnlyOps == {"critical_parameters", "all_props0", "all_props1"}

\* The operations the claim names as testing the sum too.
SumCheckedOps ==
    FlashOps \cup {"convert_to_mass_fractions", "convert_to_mole_fractions",
                   "convert_to_mass_quality", "convert_to_mole_quality",
                   "transport_properties", "satspln"}

\* The arguments of the call other than its composition pass its checks.
OtherArgumentsValid(c) ==
    /\ c.op = "all_props0" => c.nout <= MAX_OUTPUTS
    /\ c.op = "all_props1" => (c.str.len <= HOUT_LENGTH /\ ~c.str.nul)

\* C31: critical_parameters, all_props0 and all_props1 called with at most
\* MAX_COMPONENTS entries are never answered with InvalidInput on account of
\* the sum, and reach their native call once they have the gate (all_props1:
\* its own gate, after get_enum returned); a flash
\* routine, a conversion, transport_properties and satspln called with at most
\* MAX_COMPONENTS entries whose sum is not within Tolerance of One have
\* returned InvalidInput without taking the gate.
C31_LengthOnlyValidation ==
    \A t \in Threads :
        (thr[t].pc # "idle" /\ Len(thr[t].call.z) <= MAX_COMPONENTS) =>
            /\ (thr[t].call.op \in LengthOnlyOps /\ OtherArgumentsValid(thr[t].call)) =>
                  /\ ~(thr[t].pc = "done" /\ thr[t].res.kind = "InvalidInput")
                  /\ (/\ thr[t].pc = "done"
                      /\ thr[t].res.kind # "MutexPoisoned"
                      /\ thr[t].call.op = "all_props1" => thr[t].obs.gate = 2) =>
                        CountCalls(thr[t].obs.calls, Desc(thr[t].call).entry) > 0
            /\ (thr[t].call.op \in SumCheckedOps /\ ~CompositionPredicate(thr[t].call.z)) =>
                  /\ thr[t].pc = "done"
                  /\ thr[t].res.kind = "InvalidInput"
                  /\ thr[t].obs.gate = 0
                  /\ thr[t].obs.calls = <<>>

---------------------------------------------------------------------------
(* set_mixture's composition *)

\* The length of the longest leading run of entries of `arr` that are
\* greater than zero.
LeadingRun(arr) ==
    IF \E i \in 1..Len(arr) : ~Gt(arr[i], 0)
    THEN (CHOOSE i \in 1..Len(arr) :
            /\ ~Gt(arr[i], 0)
            /\ \A j \in 1..(i - 1) : Gt(arr[j], 0)) - 1
    ELSE Len(arr)

\* C32: a successful set_mixture returns the longest leading run of strictly
\* positive entries of the 20-slot array SETMIXTUREdll wrote: between 0 and
\* 20 entries, each greater than zero, nothing after the first slot that is
\* not; and validate_composition accepts the vector whenever it sums to one
\* within the tolerance.
C32_MixtureLeadingRun ==
    \A t \in Threads :
        (thr[t].pc = "done" /\ thr[t].call.op = "set_mixture" /\ thr[t].res.kind = "Ok") =>
            LET v == thr[t].res.val
                arr == thr[t].obs.out.x
            IN  /\ Len(arr) = MAX_COMPONENTS
                /\ Len(v) = LeadingRun(arr)
                /\ Len(v) \in 0..MAX_COMPONENTS
                /\ \A i \in 1..Len(v) : v[i] = arr[i] /\ v[i] > 0 /\ v[i] # NaN
                /\ (Sum(v) - One <= Tolerance /\ One - Sum(v) <= Tolerance) =>
                        validate_composition(v) = "Ok"

\* set_mixture returned two components of an array whose third positive
\* entry lay behind an empty slot.
C32_Witness ==
    \E t \in Threads :
        /\ thr[t].pc = "done"
        /\ thr[t].call.op = "set_mixture"
        /\ thr[t].res.kind = "Ok"
        /\ thr[t].obs.out.x = MixGap
        /\ thr[t].res.val = <<One \div 2>>
        /\ thr[t].obs.calls = <<"SETMIXTUREdll">>

---------------------------------------------------------------------------
(* all_props0's marshaling *)

\* C33: all_props0 returns InvalidInput without taking the gate when i_out has
\* more than 200 entries or z more than 20; otherwise ALLPROPS0dll is given
\* the count len(i_out) and the 200-slot code array holding i_out followed by
\* zeros, and when it returns code zero the result is exactly the first
\* len(i_out) slots of the output array.
C33_AllProps0Marshaling ==
    \A t \in Threads :
        (thr[t].pc # "idle" /\ thr[t].call.op = "all_props0") =>
            LET c == thr[t].call
                o == thr[t].obs
            IN  IF c.nout > MAX_OUTPUTS \/ Len(c.z) > MAX_COMPONENTS
                THEN /\ thr[t].pc = "done"
                     /\ thr[t].res.kind = "InvalidInput"
                     /\ o.gate = 0
                     /\ o.calls = <<>>
                ELSE /\ ~(thr[t].pc = "done" /\ thr[t].res.kind = "InvalidInput")
                     /\ o.calls # <<>> =>
                          /\ o.calls[1] = "ALLPROPS0dll"
                          /\ o.i_in = c.nout
                          /\ Len(o.i_out_buffer) = MAX_OUTPUTS
                          /\ \A i \in 1..MAX_OUTPUTS :
                                o.i_out_buffer[i] = IF i <= c.nout THEN IOut(c)[i] ELSE 0
                     /\ (thr[t].pc = "done" /\ o.codes = <<0>>) =>
                          /\ thr[t].res.kind = "Ok"
                          /\ Len(thr[t].res.val) = c.nout
                          /\ \A i \in 1..c.nout : thr[t].res.val[i] = o.out.x[i]

\* all_props0 asked for two values, the native library wrote all 200 slots,
\* and two values came back.
C33_Witness ==
    \E t \in Threads :
        /\ thr[t].pc = "done"
        /\ thr[t].call.op = "all_props0"
        /\ thr[t].call.nout = 2
        /\ thr[t].obs.codes = <<0>>
        /\ thr[t].obs.out.x[MAX_OUTPUTS] # 0
        /\ thr[t].res = Ok(<<1001, 1002>>)

---------------------------------------------------------------------------
(* all_props1's marker *)

\* C34: when ALLPROPS1dll returned code zero and left the marker -9999970 in
\* the first output slot, all_props1 returns CalculationError("REFPROP unable
\* to calculate output.") and not the marker as a property value.
C34_MarkerFiltered ==
    \A t \in Threads :
        (/\ thr[t].pc = "done"
         /\ thr[t].call.op = "all_props1"
         /\ thr[t].obs.gate = 2
         /\ thr[t].obs.codes[Len(thr[t].obs.codes)] = 0
         /\ thr[t].obs.out.val = NO_VALUE_MARKER) =>
            thr[t].res.kind = "CalculationError"

---------------------------------------------------------------------------
(* The heat-capacity sentinels *)

\* C35: in every flash routine the Cv and Cp slots hold CV_UNDEFINED and
\* CP_UNDEFINED when the native call is made, and a slot that still holds its
\* sentinel after a successful call is reported as None.
C35_SentinelsPreloaded ==
    \A t \in Threads :
        (thr[t].pc # "idle" /\ thr[t].call.op \in FlashOps) =>
            /\ (thr[t].pc = "native" /\ thr[t].obs.codes = <<>>) =>
                  /\ thr[t].loc.out.Cv = CV_UNDEFINED
                  /\ thr[t].loc.out.Cp = CP_UNDEFINED
            /\ (thr[t].pc = "done" /\ thr[t].res.kind = "Ok") =>
                  /\ thr[t].obs.out.Cv = CV_UNDEFINED => thr[t].res.val.Cv = None
                  /\ thr[t].obs.out.Cp = CP_UNDEFINED => thr[t].res.val.Cp = None

\* th_flash succeeded with the Cv slot left at its sentinel and the Cp slot
\* written: Cv is None and Cp is a value.
C35_Witness ==
    \E t \in Threads :
        /\ thr[t].pc = "done"
        /\ thr[t].call.op = "th_flash"
        /\ thr[t].res.kind = "Ok"
        /\ thr[t].obs.calls = <<"THFLSHdll">>
        /\ thr[t].obs.out.Cv = CV_UNDEFINED
        /\ thr[t].obs.out.Cp = 30
        /\ thr[t].res.val.Cv = None
        /\ thr[t].res.val.Cp = Some(30)

---------------------------------------------------------------------------
(* set_path with an explicit path *)

\* C36: set_path(Some(p)) with no 0 byte in p, once it holds the gate, never
\* panics, whether or not RPPREFIX is set: it calls SETPATHdll once, returns
\* Ok, and leaves the gate released and unpoisoned.
C36_ExplicitPathIgnoresEnvironment ==
    \A t \in Threads :
        (/\ thr[t].call.op = "set_path"
         /\ thr[t].call.hasPath
         /\ ~thr[t].call.str.nul
         /\ thr[t].pc \notin {"idle", "lock"}
         /\ ~(thr[t].pc = "done" /\ thr[t].res.kind = "MutexPoisoned")) =>
            /\ thr[t].pc # "panicked"
            /\ thr[t].pc = "done" =>
                  /\ thr[t].res.kind = "Ok"
                  /\ thr[t].obs.calls = <<"SETPATHdll">>
                  /\ holder # t
                  /\ ~poisoned

---------------------------------------------------------------------------
(* name's text fields *)

\* C37: name returns, for each of its three fields, the bytes of the field up
\* to the first 0 byte or the end of the field, trailing blanks trimmed, also
\* when NAMEdll filled a field without a 0 byte; when a field is not valid
\* UTF-8 it returns Utf8Error; and it always returns.
C37_NameReadsWithinFields ==
    \A t \in Threads :
        (thr[t].call.op = "name" /\ thr[t].obs.calls = <<"NAMEdll">>) =>
            LET f == thr[t].obs.out.names
            IN  /\ ~(thr[t].pc = "finish" /\ crashed)
                /\ thr[t].pc = "done" =>
                      IF \A i \in 1..3 : ValidUtf8(BufferMessage(f[i]))
                      THEN /\ thr[t].res.kind = "Ok"
                           /\ thr[t].res.val = NameOutput([i \in 1..3 |-> BufferMessage(f[i])])
                      ELSE thr[t].res.kind = "Utf8Error"

---------------------------------------------------------------------------
(* The failures returned *)

ReturnedKinds == {"Ok", "CalculationError", "InvalidInput", "Utf8Error", "MutexPoisoned"}

SessionSetupOps == {"set_fluids", "set_mixture"}

\* The session-setup call of thread t has returned after its native call
\* gave a nonzero error code.
SetupFailed(t) ==
    /\ thr[t].pc = "done"
    /\ thr[t].call.op \in SessionSetupOps
    /\ thr[t].obs.codes # <<>>
    /\ thr[t].obs.codes[1] # 0

============================================================================
